---- MODULE Spec2Model ----
(***************************************************************************)
(* A model of paperless_mail/mail.py: one pass of                          *)
(* MailAccountHandler.handle_mail_account over one mail account, with the  *)
(* IMAP server's mailbox, the mailbox session, and the ingestion queue     *)
(* (async_task) as the environment.                                        *)
(*                                                                         *)
(* Every call into the IMAP library, the scratch directory, the task queue *)
(* or the correspondent table may raise: the outcome of each such call is  *)
(* drawn with \E in the action that makes the call.  Reading the account's *)
(* configuration (its rules) and releasing the session at the end of the   *)
(* with-block are taken to succeed.                                        *)
(*                                                                         *)
(* Spec is the pass of an account of up to MaxRules rules; SpecCriteria,   *)
(* SpecPipeline and SpecActions are the pass of an account of one rule     *)
(* whose filters, attachment handling and action vary; SpecPasses repeats  *)
(* the pass over the mailbox the pass before left.                         *)
(***************************************************************************)
EXTENDS Integers, Sequences, FiniteSets, TLC

VARIABLES
    pc,          \* position in handle_mail_account / handle_mail_rule / handle_message
    account,     \* the MailAccount and its MailRules (read-only to this code)
    server,      \* the IMAP server's messages: uid -> message with its server-side state
    sess,        \* the mailbox session M: how often opened and released, IMAP state, selected folder
    auth,        \* what the authentication steps did: outcome of login, of the PLAIN fallback
    attempted,   \* ids of the rules handle_mail_rule was called for, in call order
    total,       \* handle_mail_account's total_processed_files
    cur,         \* the locals of the running handle_mail_rule call
    hmsg,        \* the locals of the running handle_message call
    dispatched,  \* the async_task calls made so far: <<rule id, uid, attachment index,
                 \*   override_correspondent_id, outcome of the lookup>>
    cmds,        \* the IMAP commands issued on behalf of rules, in order
    ruleLog,     \* one entry per finished handle_mail_rule call: how it ended
    result       \* how handle_mail_account ended: running, returned (with value), raised MailError

vars == <<pc, account, server, sess, auth, attempted, total, cur, hmsg,
          dispatched, cmds, ruleLog, result>>

----------------------------------------------------------------------------
(* Bounds of the model *)

MaxMsgs == 2     \* messages on the server
MaxParts == 3    \* attachment parts on the server, over all messages
MaxRules == 2    \* rules of the account
Today == 5       \* date.today(), in days
MaxPasses == 2   \* calls of handle_mail_account for the same account

UIDs == 1..MaxMsgs

----------------------------------------------------------------------------
(* Data: strings the code inspects character by character are tuples of     *)
(* one-character strings.                                                   *)

GmailCom == <<"g", "m", "a", "i", "l", ".", "c", "o", "m">>
GooglemailCom == <<"g", "o", "o", "g", "l", "e", "m", "a", "i", "l", ".", "c", "o", "m">>
ExampleOrg == <<"m", "x", ".", "o", "r", "g">>
ImapGmailCom == <<"i", "m", "a", "p", ".">> \o GmailCom

Hosts == {ImapGmailCom, ExampleOrg}

\* folders that exist on the server
Folders == {"INBOX", "Archive"}
\* folder names a rule may carry: the last one does not exist
RuleFolders == {"INBOX", "Missing"}

Actions == {"FLAG", "DELETE", "MOVE", "MARK_READ", "TAG"}

Range(seq) == {seq[i] : i \in 1..Len(seq)}

EndsWith(s, suffix) ==
    /\ Len(s) >= Len(suffix)
    /\ SubSeq(s, Len(s) - Len(suffix) + 1, Len(s)) = suffix

Contains(hay, needle) ==
    \E i \in 1..(Len(hay) + 1) :
        /\ i + Len(needle) - 1 <= Len(hay)
        /\ SubSeq(hay, i, i + Len(needle) - 1) = needle

\* IsGmailHost with re.match for re.search: the pattern must match from the
\* first character of the host
IsGmailHostFromStart(host) == host = GmailCom \/ host = GooglemailCom

\* re.search(r"gmail\.com$|googlemail\.com$", M._host)
IsGmailHost(host) == EndsWith(host, GmailCom) \/ EndsWith(host, GooglemailCom)

----------------------------------------------------------------------------
(* Attachments, messages, rules *)

PdfName == <<"a", ".", "p", "d", "f">>
ExeName == <<"b", ".", "e", "x", "e">>

\* magic.from_buffer(att.payload, mime=True): the type is read off the bytes
Magic(payload) ==
    CASE payload = "%PDF" -> "application/pdf"
      [] payload = "MZ"   -> "application/x-dosexec"
      [] OTHER            -> "application/octet-stream"

\* documents.parsers.is_mime_type_supported, an external capability
is_mime_type_supported(mime_type) == mime_type \in {"application/pdf"}

\* a part the pipeline accepts, whatever its declared type, and one it rejects
GoodAtt == [content_disposition |-> "attachment", filename |-> PdfName,
            payload |-> "%PDF", content_type |-> "application/octet-stream"]
BadAtt  == [content_disposition |-> "attachment", filename |-> ExeName,
            payload |-> "MZ", content_type |-> "application/pdf"]

AttPool == {GoodAtt, BadAtt}

AttLists == UNION {[1..n -> AttPool] : n \in 0..MaxParts}

\* None, and the id of the Correspondent of a name (Correspondent.id)
None == 0
CorrespondentId(name) == 10 + Len(name)

NewMessage(atts) ==
    [exists |-> TRUE, folder |-> "INBOX", seen |-> FALSE, flagged |-> FALSE,
     keywords |-> {}, labels |-> {}, date |-> Today,
     from_ |-> <<"a">>, from_name |-> <<>>, subject |-> <<"s">>, body |-> <<"b">>,
     attachments |-> atts]

ActionParameter(action) ==
    CASE action = "MOVE" -> "Archive"
      [] action = "TAG"  -> "Invoices"
      [] OTHER           -> ""

NewRule(order, folder, action) ==
    [order |-> order, folder |-> folder, action |-> action,
     action_parameter |-> ActionParameter(action),
     maximum_age |-> 0, filter_from |-> <<>>, filter_subject |-> <<>>,
     filter_body |-> <<>>, filter_attachment_filename |-> <<>>,
     attachment_type |-> "ATTACHMENTS_ONLY",
     assign_title_from |-> "FROM_SUBJECT",
     assign_correspondent_from |-> "FROM_NOTHING",
     assign_correspondent |-> None]

----------------------------------------------------------------------------
(* RuleAction variants and CriteriaBuilder.  A criteria dict is a set of     *)
(* <<key, value>> pairs with distinct keys.                                 *)

\* get_criteria with no override: no action contributes a pre-filter
get_criteria_of_base(rule) == {}

\* BaseMailAction.get_criteria and its overrides, by get_rule_action(rule)
get_criteria(rule) ==
    CASE rule.action = "MARK_READ" -> {<<"seen", FALSE>>}
      [] rule.action = "FLAG"      -> {<<"flagged", FALSE>>}
      [] rule.action = "TAG"       -> {<<"no_keyword", rule.action_parameter>>,
                                       <<"gmail_label", rule.action_parameter>>}
      [] OTHER                     -> {}

\* make_criterias with the date bound added whatever maximum_age is
make_criterias_always_dated(rule) ==
    {<<"date_gte", Today - rule.maximum_age>>}
    \cup (IF rule.filter_from # <<>> THEN {<<"from_", rule.filter_from>>} ELSE {})
    \cup (IF rule.filter_subject # <<>>
             THEN {<<"subject", rule.filter_subject>>} ELSE {})
    \cup (IF rule.filter_body # <<>> THEN {<<"body", rule.filter_body>>} ELSE {})
    \cup get_criteria(rule)

make_criterias(rule) ==
    (IF rule.maximum_age > 0
        THEN {<<"date_gte", Today - rule.maximum_age>>} ELSE {})
    \cup (IF rule.filter_from # <<>> THEN {<<"from_", rule.filter_from>>} ELSE {})
    \cup (IF rule.filter_subject # <<>>
             THEN {<<"subject", rule.filter_subject>>} ELSE {})
    \cup (IF rule.filter_body # <<>> THEN {<<"body", rule.filter_body>>} ELSE {})
    \cup get_criteria(rule)

Keys(criterias) == {c[1] : c \in criterias}

\* criterias_imap without the special case: AND(**criterias) with gmail_label
\* as one more key
criterias_imap_flat(rule) == [not_ |-> {}, and_ |-> make_criterias(rule)]

\* criterias_imap of handle_mail_rule: AND(**criterias), or, when the dict has
\* a gmail_label key, AND(NOT(gmail_label=...), **rest)
criterias_imap(rule) ==
    LET criterias == make_criterias(rule) IN
    IF "gmail_label" \in Keys(criterias)
        THEN [not_ |-> {c \in criterias : c[1] = "gmail_label"},
              and_ |-> {c \in criterias : c[1] # "gmail_label"}]
        ELSE [not_ |-> {}, and_ |-> criterias]

\* the server's reading of one search key on one message
MatchesKey(m, c) ==
    CASE c[1] = "seen"        -> m.seen = c[2]
      [] c[1] = "flagged"     -> m.flagged = c[2]
      [] c[1] = "no_keyword"  -> c[2] \notin m.keywords
      [] c[1] = "gmail_label" -> c[2] \in m.labels
      [] c[1] = "date_gte"    -> m.date >= c[2]
      [] c[1] = "from_"       -> Contains(m.from_, c[2])
      [] c[1] = "subject"     -> Contains(m.subject, c[2])
      [] c[1] = "body"        -> Contains(m.body, c[2])

\* the uids the server returns for a search of `folder`, in ascending order
RECURSIVE Ascending(_)
Ascending(S) ==
    IF S = {} THEN <<>>
    ELSE LET least == CHOOSE x \in S : \A y \in S : x <= y
         IN <<least>> \o Ascending(S \ {least})

Search(srv, folder, crit) ==
    Ascending({u \in UIDs :
        /\ srv[u].exists
        /\ srv[u].folder = folder
        /\ \A c \in crit.and_ : MatchesKey(srv[u], c)
        /\ \A c \in crit.not_ : ~MatchesKey(srv[u], c)})

----------------------------------------------------------------------------
(* AttachmentPipeline: the per-attachment decision of handle_message *)

LowerChar(c) ==
    CASE c = "A" -> "a" [] c = "B" -> "b" [] c = "D" -> "d" [] c = "E" -> "e"
      [] c = "F" -> "f" [] c = "P" -> "p" [] c = "X" -> "x"
      [] OTHER -> c

\* str.lower()
Lower(s) == [i \in 1..Len(s) |-> LowerChar(s[i])]

\* fnmatch.fnmatch for patterns of literals, ? and *
RECURSIVE fnmatch(_, _)
fnmatch(name, pat) ==
    IF pat = <<>> THEN name = <<>>
    ELSE IF Head(pat) = "*"
        THEN fnmatch(name, Tail(pat)) \/ (name # <<>> /\ fnmatch(Tail(name), pat))
    ELSE /\ name # <<>>
         /\ (Head(pat) = "?" \/ Head(pat) = Head(name))
         /\ fnmatch(Tail(name), Tail(pat))

\* Qualifies with the declared content type trusted instead of the sniffed one
QualifiesAsDeclared(att, rule) ==
    IF /\ ~(att.content_disposition = "attachment")
       /\ rule.attachment_type = "ATTACHMENTS_ONLY"
        THEN FALSE
    ELSE IF /\ rule.filter_attachment_filename # <<>>
            /\ ~fnmatch(Lower(att.filename), Lower(rule.filter_attachment_filename))
        THEN FALSE
    ELSE is_mime_type_supported(att.content_type)

\* the body of the loop over message.attachments, up to the dispatch:
\* TRUE when the attachment is handed to async_task
Qualifies(att, rule) ==
    IF /\ ~(att.content_disposition = "attachment")
       /\ rule.attachment_type = "ATTACHMENTS_ONLY"
        THEN FALSE
    ELSE IF /\ rule.filter_attachment_filename # <<>>
            /\ ~fnmatch(Lower(att.filename), Lower(rule.filter_attachment_filename))
        THEN FALSE
    ELSE is_mime_type_supported(Magic(att.payload))

----------------------------------------------------------------------------
(* Correspondent resolution.  `db` is what Correspondent.objects.get_or_create *)
(* does when it is called: "ok" or "DatabaseError".                           *)

\* _correspondent_from_name without the try: nothing is caught
lookup_catches_nothing == {}

\* the errors the except clause of _correspondent_from_name catches
lookup_catches == {"DatabaseError"}

\* _correspondent_from_name(name) when get_or_create does not raise past it
correspondent_from_name(name, db) ==
    IF db = "ok" THEN CorrespondentId(name) ELSE None

\* get_correspondent(message, rule)
get_correspondent(message, rule, db) ==
    LET c_from == rule.assign_correspondent_from IN
    CASE c_from = "FROM_NOTHING" -> None
      [] c_from = "FROM_EMAIL"   -> correspondent_from_name(message.from_, db)
      [] c_from = "FROM_NAME"    ->
            IF Len(message.from_name) > 0
                THEN correspondent_from_name(message.from_name, db)
                ELSE correspondent_from_name(message.from_, db)
      [] c_from = "FROM_CUSTOM"  -> rule.assign_correspondent

\* what became of the lookup get_correspondent made: "none" when it made none
LookupOutcome(rule, db) ==
    IF rule.assign_correspondent_from \in {"FROM_EMAIL", "FROM_NAME"}
        THEN db ELSE "none"

----------------------------------------------------------------------------
(* Post-consume effects on the server *)

\* the effect of one rule action on one message
Effect(m, rule, host) ==
    CASE rule.action = "DELETE"    -> [m EXCEPT !.exists = FALSE]
      [] rule.action = "MARK_READ" -> [m EXCEPT !.seen = TRUE]
      [] rule.action = "MOVE"      -> [m EXCEPT !.folder = rule.action_parameter]
      [] rule.action = "FLAG"      -> [m EXCEPT !.flagged = TRUE]
      [] rule.action = "TAG"       ->
            IF IsGmailHost(host)
                THEN [m EXCEPT !.labels = {rule.action_parameter}]
                ELSE [m EXCEPT !.keywords = @ \cup {rule.action_parameter}]

\* post_consume(M, message_uids, parameter) carried out on the first n uids
ApplyAction(srv, rule, host, message_uids, n) ==
    [u \in UIDs |->
        IF u \in Range(SubSeq(message_uids, 1, n))
            THEN Effect(srv[u], rule, host) ELSE srv[u]]

\* the IMAP commands post_consume issues when it gets as far as the n-th uid
PostCommands(rid, rule, host, message_uids, n, st) ==
    IF rule.action = "TAG" /\ IsGmailHost(host)
        THEN [i \in 1..n |->
                [rule |-> rid,
                 cmd |-> "UID STORE X-GM-LABELS", uids |-> <<message_uids[i]>>,
                 arg |-> rule.action_parameter, state |-> st.state,
                 folder |-> st.folder]]
        ELSE << [rule |-> rid,
                 cmd |-> CASE rule.action = "DELETE" -> "DELETE"
                           [] rule.action = "MOVE"   -> "MOVE"
                           [] OTHER                  -> "FLAG",
                 uids |-> message_uids,
                 arg |-> CASE rule.action = "MARK_READ" -> "\\Seen"
                           [] rule.action = "FLAG"      -> "\\Flagged"
                           [] OTHER                     -> rule.action_parameter,
                 state |-> st.state, folder |-> st.folder] >>

----------------------------------------------------------------------------
(* Initial state: the account, the mailbox, and handle_mail_account about to *)
(* run.                                                                      *)

NoCriteria == [not_ |-> {}, and_ |-> {}]

NoRule ==
    [rule |-> 0, criterias |-> NoCriteria, messages |-> <<>>, mi |-> 0,
     post_consume_messages |-> <<>>,
     mails_processed |-> 0, total_processed_files |-> 0, returns |-> <<>>]

NoMessage ==
    [ai |-> 0, processed_attachments |-> 0, correspondent |-> None,
     lookup |-> "none"]

\* the order fields of n rules: descending in the rule's id, or the first two
\* rules equal and the others after them
Orders(n) == {[i \in 1..n |-> n - i], [i \in 1..n |-> IF i <= 2 THEN 0 ELSE i]}

\* folder and action of a rule; the action of a rule on a folder the server
\* does not have is never read, so one stands for all
RuleConfigs ==
    {c \in RuleFolders \X Actions : c[1] \in Folders \/ c[2] = "DELETE"}

RuleSets(n) ==
    {[i \in 1..n |-> NewRule(o[i], c[i][1], c[i][2])] :
        o \in Orders(n), c \in [1..n -> RuleConfigs]}

RECURSIVE Sum(_, _)
Sum(f, S) ==
    IF S = {} THEN 0
    ELSE LET x == CHOOSE y \in S : TRUE IN f[x] + Sum(f, S \ {x})

\* the mailboxes: every message in INBOX, unseen, with any list of attachments,
\* at most MaxParts attachments in all
Mailboxes ==
    {[u \in UIDs |-> NewMessage(atts[u])] :
        atts \in {a \in [UIDs -> AttLists] :
                    Sum([u \in UIDs |-> Len(a[u])], UIDs) <= MaxParts}}

\* the mailbox of one message with one acceptable attachment (the other uids
\* are of messages expunged earlier)
PlainMailboxes ==
    {[u \in UIDs |-> IF u = 1 THEN NewMessage(<<GoodAtt>>)
                              ELSE [NewMessage(<<>>) EXCEPT !.exists = FALSE]]}

\* handle_mail_account(acct) about to run against the mailbox srv
Start(acct, srv) ==
    /\ pc = "start"
    /\ account = acct
    /\ server = srv
    /\ sess = [opened |-> 0, released |-> 0, state |-> "NONE", folder |-> ""]
    /\ auth = [login |-> "none", plain |-> "none", pending |-> "none"]
    /\ attempted = <<>>
    /\ total = 0
    /\ cur = NoRule
    /\ hmsg = NoMessage
    /\ dispatched = <<>>
    /\ cmds = <<>>
    /\ ruleLog = <<>>
    /\ result = [status |-> "running", value |-> 0]

\* the hosts an account of these rules is tried on: the host is read by the
\* Tag action only
HostsFor(rules) ==
    IF \E i \in DOMAIN rules : rules[i].action = "TAG" THEN Hosts ELSE {ExampleOrg}

\* a uid whose message was expunged earlier
Expunged == [NewMessage(<<>>) EXCEPT !.exists = FALSE]

\* the mailbox holding the one message m
OneMessage(m) == [u \in UIDs |-> IF u = 1 THEN m ELSE Expunged]

\* the rule on a folder the server does not have
MissingFolderRule == NewRule(0, "Missing", "DELETE")

\* rules on INBOX with every combination of age bound and filters, and every
\* action
CriteriaRules ==
    {[NewRule(0, "INBOX", a) EXCEPT !.maximum_age = age, !.filter_from = f,
                                     !.filter_subject = sj, !.filter_body = b] :
        a \in Actions, age \in {0, 2}, f \in {<<>>, <<"a">>},
        sj \in {<<>>, <<"s">>}, b \in {<<>>, <<"b">>}}
    \cup {MissingFolderRule}

\* messages that differ from a new message in one thing a search key reads
CriteriaMessages ==
    LET m == NewMessage(<<GoodAtt>>) IN
    {m, NewMessage(<<>>),
     [m EXCEPT !.date = Today - 2], [m EXCEPT !.date = Today - 3],
     [m EXCEPT !.from_ = <<"z">>], [m EXCEPT !.subject = <<"z">>],
     [m EXCEPT !.body = <<"z">>],
     [m EXCEPT !.keywords = {"Invoices"}], [m EXCEPT !.labels = {"Invoices"}],
     [m EXCEPT !.keywords = {"Other"}],
     [m EXCEPT !.seen = TRUE], [m EXCEPT !.flagged = TRUE]}

\* an account of one rule with any filters, on a mailbox of one message
InitCriteria ==
    \E rule \in CriteriaRules, m \in CriteriaMessages :
        \E host \in HostsFor(<<rule>>) :
            Start([host |-> host, rules |-> <<rule>>], OneMessage(m))

\* parts that differ from GoodAtt in one thing the pipeline reads: the
\* disposition, the file name, the payload
InlineAtt == [GoodAtt EXCEPT !.content_disposition = "inline"]
OtherNameAtt == [GoodAtt EXCEPT !.filename = ExeName]
OtherPayloadAtt == [GoodAtt EXCEPT !.payload = "MZ", !.content_type = "application/pdf"]

PipelineAtts == {GoodAtt, InlineAtt, OtherNameAtt, OtherPayloadAtt}

\* the glob *.PDF
StarDotPDF == <<"*", ".", "P", "D", "F">>

\* rules on INBOX with every attachment scope and with or without a file
\* name glob, and rules with every correspondent source
PipelineRules ==
    {[NewRule(0, "INBOX", "MARK_READ") EXCEPT
            !.attachment_type = scope, !.filter_attachment_filename = glob] :
        scope \in {"ATTACHMENTS_ONLY", "EVERYTHING"}, glob \in {<<>>, StarDotPDF}}
    \cup {[NewRule(0, "INBOX", "MARK_READ") EXCEPT
            !.assign_correspondent_from = c_from, !.assign_correspondent = 3] :
        c_from \in {"FROM_EMAIL", "FROM_NAME", "FROM_CUSTOM"}}
    \cup {MissingFolderRule}

\* messages with any list of at most MaxParts parts, with or without a
\* display name of the sender
PipelineMessages ==
    {[NewMessage(atts) EXCEPT !.from_name = name] :
        atts \in UNION {[1..n -> PipelineAtts] : n \in 0..MaxParts},
        name \in {<<>>, <<"N", "a">>}}

\* an account of one rule, on a mailbox of one message; the sender's display
\* name is read by the correspondent source FROM_NAME only
InitPipeline ==
    \E rule \in PipelineRules, m \in PipelineMessages :
        /\ (m.from_name # <<>> => rule.assign_correspondent_from = "FROM_NAME")
        /\ Start([host |-> ExampleOrg, rules |-> <<rule>>], OneMessage(m))

\* rules on INBOX with every action, the Move rules to another folder and to
\* INBOX itself (a message moved to the folder it is in stays in it, as the
\* copy the server makes: a uid of the model names the message through its
\* copies)
PassRules ==
    {NewRule(0, "INBOX", a) : a \in Actions}
    \cup {[NewRule(0, "INBOX", "MOVE") EXCEPT !.action_parameter = "INBOX"]}
    \cup {MissingFolderRule}

\* mailboxes of messages with one acceptable attachment or none
PassMailboxes ==
    {[u \in UIDs |-> NewMessage(atts[u])] : atts \in [UIDs -> {<<>>, <<GoodAtt>>}]}

\* an account of one rule, about to be processed for the first time
InitPasses ==
    \E rule \in PassRules, srv \in PassMailboxes :
        \E host \in HostsFor(<<rule>>) :
            Start([host |-> host, rules |-> <<rule>>], srv)

\* an account of at most one rule on any mailbox, or an account of up to
\* MaxRules rules on the plain mailbox
Init ==
    /\ pc = "start"
    /\ \E n \in 0..MaxRules : \E rules \in RuleSets(n) :
         /\ \E host \in (IF \E i \in DOMAIN rules : rules[i].action = "TAG"
                            THEN Hosts ELSE {ExampleOrg}) :
               account = [host |-> host, rules |-> rules]
         /\ server \in (IF n <= 1 THEN Mailboxes ELSE PlainMailboxes)
    /\ sess = [opened |-> 0, released |-> 0, state |-> "NONE", folder |-> ""]
    /\ auth = [login |-> "none", plain |-> "none", pending |-> "none"]
    /\ attempted = <<>>
    /\ total = 0
    /\ cur = NoRule
    /\ hmsg = NoMessage
    /\ dispatched = <<>>
    /\ cmds = <<>>
    /\ ruleLog = <<>>
    /\ result = [status |-> "running", value |-> 0]

----------------------------------------------------------------------------
(* handle_mail_account: opening the mailbox and authenticating *)

\* with get_mailbox(...) as M: the session is opened
OpenMailbox ==
    /\ pc = "start"
    /\ sess' = [sess EXCEPT !.opened = @ + 1, !.state = "NONAUTH"]
    /\ pc' = "login"
    /\ UNCHANGED <<account, server, auth, attempted, total, cur, hmsg,
                   dispatched, cmds, ruleLog, result>>

\* OpenMailboxFails with the error raised as MailError instead of logged
OpenMailboxFailsRaises ==
    /\ pc = "start"
    /\ result' = [status |-> "MailError", value |-> 0]
    /\ pc' = "done"
    /\ UNCHANGED <<account, server, sess, auth, attempted, total, cur, hmsg,
                   dispatched, cmds, ruleLog>>

\* get_mailbox raises (connection refused, TLS failure, unknown security):
\* except Exception logs it, and the function returns total_processed_files
OpenMailboxFails ==
    /\ pc = "start"
    /\ result' = [status |-> "returned", value |-> total]
    /\ pc' = "done"
    /\ UNCHANGED <<account, server, sess, auth, attempted, total, cur, hmsg,
                   dispatched, cmds, ruleLog>>

\* M.login succeeds; the library leaves INBOX selected
LoginOk ==
    /\ pc = "login"
    /\ auth' = [auth EXCEPT !.login = "ok"]
    /\ sess' = [sess EXCEPT !.state = "SELECTED", !.folder = "INBOX"]
    /\ pc' = "rules"
    /\ UNCHANGED <<account, server, attempted, total, cur, hmsg,
                   dispatched, cmds, ruleLog, result>>

\* M.login raises UnicodeEncodeError: the PLAIN fallback is entered
LoginUnicodeEncodeError ==
    /\ pc = "login"
    /\ auth' = [auth EXCEPT !.login = "UnicodeEncodeError"]
    /\ pc' = "plain"
    /\ UNCHANGED <<account, server, sess, attempted, total, cur, hmsg,
                   dispatched, cmds, ruleLog, result>>

\* LoginError with the error logged and not raised: the rules are run
LoginErrorIgnored ==
    /\ pc = "login"
    /\ auth' = [auth EXCEPT !.login = "error"]
    /\ pc' = "rules"
    /\ UNCHANGED <<account, server, sess, attempted, total, cur, hmsg,
                   dispatched, cmds, ruleLog, result>>

\* M.login raises anything else: MailError is raised out of the with-block
LoginError ==
    /\ pc = "login"
    /\ auth' = [auth EXCEPT !.login = "error", !.pending = "MailError"]
    /\ pc' = "exit"
    /\ UNCHANGED <<account, server, sess, attempted, total, cur, hmsg,
                   dispatched, cmds, ruleLog, result>>

\* PlainOk without M.folder.set("INBOX"): the session stays authenticated,
\* with no folder selected
PlainOkWithoutSelect ==
    /\ pc = "plain"
    /\ auth' = [auth EXCEPT !.plain = "ok"]
    /\ sess' = [sess EXCEPT !.state = "AUTH"]
    /\ pc' = "rules"
    /\ UNCHANGED <<account, server, attempted, total, cur, hmsg,
                   dispatched, cmds, ruleLog, result>>

\* client.authenticate("PLAIN", ...) and M.folder.set("INBOX") both succeed
PlainOk ==
    /\ pc = "plain"
    /\ auth' = [auth EXCEPT !.plain = "ok"]
    /\ sess' = [sess EXCEPT !.state = "SELECTED", !.folder = "INBOX"]
    /\ pc' = "rules"
    /\ UNCHANGED <<account, server, attempted, total, cur, hmsg,
                   dispatched, cmds, ruleLog, result>>

\* the fallback raises, in authenticate (the session stays unauthenticated) or
\* in folder.set (authenticated, nothing selected): MailError
PlainFails ==
    /\ pc = "plain"
    /\ \E authenticated \in BOOLEAN :
         sess' = [sess EXCEPT !.state = IF authenticated THEN "AUTH" ELSE "NONAUTH"]
    /\ auth' = [auth EXCEPT !.plain = "failed", !.pending = "MailError"]
    /\ pc' = "exit"
    /\ UNCHANGED <<account, server, attempted, total, cur, hmsg,
                   dispatched, cmds, ruleLog, result>>

\* ExitSession without the with-block: the session is released only when no
\* error is on its way out
ExitSessionOnSuccessOnly ==
    /\ \/ pc = "exit"
       \/ pc = "rules" /\ DOMAIN account.rules \subseteq Range(attempted)
    /\ sess' = IF auth.pending = "MailError" THEN sess
               ELSE [sess EXCEPT !.released = @ + 1, !.state = "LOGOUT", !.folder = ""]
    /\ result' = IF auth.pending = "MailError"
                    THEN [status |-> "MailError", value |-> 0]
                    ELSE [status |-> "returned", value |-> total]
    /\ pc' = "done"
    /\ UNCHANGED <<account, server, auth, attempted, total, cur, hmsg,
                   dispatched, cmds, ruleLog>>

\* the with-block is left, by MailError on its way out or because the loop
\* over the rules is exhausted: the session is released; then
\* except MailError: raise, or return total_processed_files
ExitSession ==
    /\ \/ pc = "exit"
       \/ pc = "rules" /\ DOMAIN account.rules \subseteq Range(attempted)
    /\ sess' = [sess EXCEPT !.released = @ + 1, !.state = "LOGOUT", !.folder = ""]
    /\ result' = IF auth.pending = "MailError"
                    THEN [status |-> "MailError", value |-> 0]
                    ELSE [status |-> "returned", value |-> total]
    /\ pc' = "done"
    /\ UNCHANGED <<account, server, auth, attempted, total, cur, hmsg,
                   dispatched, cmds, ruleLog>>

----------------------------------------------------------------------------
(* handle_mail_account: the loop over the rules *)

Attempted == Range(attempted)

\* account.rules.order_by("order"): the rules that may come next, those of
\* least order among the rules not yet iterated (equal orders come in any order)
order_by(rules, done) ==
    {r \in DOMAIN rules \ done :
        \A q \in DOMAIN rules \ done : rules[r].order <= rules[q].order}

\* AfterRuleError without the handler: a failing rule ends the loop
AfterRuleErrorStops == "exit"

\* where the loop goes when handle_mail_rule raised: except Exception logs
\* the error and the loop continues
AfterRuleError == "rules"

\* the entry of ruleLog for the running rule
LogEntry(outcome, stage, value, batch) ==
    [rule |-> cur.rule, outcome |-> outcome, stage |-> stage, value |-> value,
     messages |-> cur.messages, returns |-> cur.returns, batch |-> batch,

     ndispatched |-> Cardinality({i \in 1..Len(dispatched) :
                                    dispatched[i][1] = cur.rule})]

\* handle_mail_rule returns `value`: total_processed_files += value
RuleReturns(value, batch) ==
    /\ ruleLog' = Append(ruleLog, LogEntry("returned", "done", value, batch))
    /\ total' = total + value
    /\ cur' = NoRule
    /\ hmsg' = NoMessage
    /\ pc' = "rules"

\* handle_mail_rule raises `error` at `stage`; handle_mail_account catches it
RuleRaises(error, stage, batch) ==
    /\ ruleLog' = Append(ruleLog, LogEntry(error, stage, -1, batch))
    /\ total' = total
    /\ cur' = NoRule
    /\ hmsg' = NoMessage
    /\ pc' = AfterRuleError

\* the next rule of the loop: handle_mail_rule(M, rule) is called
StartRule ==
    /\ pc = "rules"
    /\ \E r \in order_by(account.rules, Attempted) :
         /\ attempted' = Append(attempted, r)
         /\ cur' = [NoRule EXCEPT !.rule = r]
    /\ pc' = "select"
    /\ UNCHANGED <<account, server, sess, auth, total, hmsg,
                   dispatched, cmds, ruleLog, result>>

----------------------------------------------------------------------------
(* handle_mail_rule *)

Rule == account.rules[cur.rule]

Command(name, uids, arg) ==
    [rule |-> cur.rule, cmd |-> name, uids |-> uids, arg |-> arg,
     state |-> sess.state, folder |-> sess.folder]

\* M.folder.set(rule.folder) on a folder the server has
SelectFolder ==
    /\ pc = "select"
    /\ Rule.folder \in Folders
    /\ cmds' = Append(cmds, Command("SELECT", <<>>, Rule.folder))
    /\ sess' = [sess EXCEPT !.state = "SELECTED", !.folder = Rule.folder]
    /\ pc' = "fetch"
    /\ UNCHANGED <<account, server, auth, attempted, total, cur, hmsg,
                   dispatched, ruleLog, result>>

\* SelectFolderError with the error logged and not raised: the rule goes on
\* to its fetch with no folder selected
SelectFolderErrorIgnored ==
    /\ pc = "select"
    /\ Rule.folder \notin Folders
    /\ cmds' = Append(cmds, Command("SELECT", <<>>, Rule.folder))
    /\ sess' = [sess EXCEPT !.state = "AUTH", !.folder = ""]
    /\ pc' = "fetch"
    /\ UNCHANGED <<account, server, auth, attempted, total, cur, hmsg,
                   dispatched, ruleLog, result>>

\* M.folder.set raises MailboxFolderSelectError: the folders are listed for
\* the log (the listing may fail too), and MailError is raised
SelectFolderError ==
    /\ pc = "select"
    /\ Rule.folder \notin Folders
    /\ cmds' = cmds \o << Command("SELECT", <<>>, Rule.folder),
                           [Command("LIST", <<>>, "")
                               EXCEPT !.state = "AUTH", !.folder = ""] >>
    /\ sess' = [sess EXCEPT !.state = "AUTH", !.folder = ""]
    /\ RuleRaises("MailError", "select", <<>>)
    /\ UNCHANGED <<account, server, auth, attempted, dispatched, result>>

\* M.folder.set raises something else (the connection breaks, the server times
\* out): no handler in handle_mail_rule, the error leaves it as it is
SelectFolderOtherError ==
    /\ pc = "select"
    /\ cmds' = Append(cmds, Command("SELECT", <<>>, Rule.folder))
    /\ sess' = [sess EXCEPT !.state = "AUTH", !.folder = ""]
    /\ RuleRaises("Exception", "select", <<>>)
    /\ UNCHANGED <<account, server, auth, attempted, dispatched, result>>

\* what M.fetch(criteria, mark_seen, charset) leaves on the server
Fetched(srv, uids, mark_seen) ==
    [u \in UIDs |->
        IF mark_seen /\ u \in Range(uids) THEN [srv[u] EXCEPT !.seen = TRUE]
                                          ELSE srv[u]]

\* fetch_mark_seen left at the library's default
fetch_mark_seen_default == TRUE

\* the mark_seen argument handle_mail_rule passes to M.fetch
fetch_mark_seen == FALSE

\* M.fetch(criteria=criterias_imap, mark_seen=False, ...) on the selected folder
Fetch ==
    /\ pc = "fetch"
    /\ LET found == Search(server, sess.folder, criterias_imap(Rule)) IN
         /\ cur' = [cur EXCEPT !.criterias = criterias_imap(Rule),
                               !.messages = found]
         /\ server' = Fetched(server, found, fetch_mark_seen)
    /\ cmds' = Append(cmds, Command("FETCH", <<>>, ""))
    /\ pc' = "loop"
    /\ UNCHANGED <<account, sess, auth, attempted, total, hmsg,
                   dispatched, ruleLog, result>>

\* the call M.fetch raises: MailError
FetchError ==
    /\ pc = "fetch"
    /\ cmds' = Append(cmds, Command("FETCH", <<>>, ""))
    /\ RuleRaises("MailError", "fetch", <<>>)
    /\ UNCHANGED <<account, server, sess, auth, attempted, dispatched, result>>

----------------------------------------------------------------------------
(* handle_mail_rule: the loop over the fetched messages, and handle_message *)

Uid == cur.messages[cur.mi + 1]
Message == server[Uid]

\* Recorded with the test processed_files >= 0: every evaluated message is recorded
RecordedAlways(batch, uid, processed_files) ==
    IF processed_files >= 0 THEN Append(batch, uid) ELSE batch

\* post_consume_messages after handle_message returned processed_files for uid
Recorded(batch, uid, processed_files) ==
    IF processed_files > 0 THEN Append(batch, uid) ELSE batch

\* the try-body of the message loop after handle_message returned; the entry
\* of returns is <<uid, count, error raised, outcome of the lookup>>
MessageReturns(processed_files) ==
    /\ cur' = [cur EXCEPT
                !.returns = Append(@, <<Uid, processed_files, "", hmsg.lookup>>),
                !.post_consume_messages = Recorded(@, Uid, processed_files),
                !.total_processed_files = @ + processed_files,
                !.mails_processed = @ + 1,
                !.mi = @ + 1]
    /\ hmsg' = NoMessage
    /\ pc' = "loop"

\* AfterMessageError with a break: a failing message ends the message loop
AfterMessageErrorBreaks == "post"

\* where handle_mail_rule goes when handle_message raised: except Exception
\* logs the error and the loop goes on with the next message
AfterMessageError == "loop"

\* handle_message of a message without attachments returns 0
MessageWithoutAttachments ==
    /\ pc = "loop"
    /\ cur.mi < Len(cur.messages)
    /\ Message.attachments = <<>>
    /\ MessageReturns(0)
    /\ UNCHANGED <<account, server, sess, auth, attempted, total,
                   dispatched, cmds, ruleLog, result>>

\* handle_message raises `error`: it is caught in the message loop
MessageRaises(error, lookup) ==
    /\ cur' = [cur EXCEPT !.returns = Append(@, <<Uid, -1, error, lookup>>),
                          !.mi = @ + 1]
    /\ hmsg' = NoMessage
    /\ pc' = AfterMessageError

\* handle_message of a message with attachments resolves the correspondent
\* and gets to its loop
StartMessage ==
    /\ pc = "loop"
    /\ cur.mi < Len(cur.messages)
    /\ Message.attachments # <<>>
    /\ \E db \in {"ok", "DatabaseError"} :
         LET lookup == LookupOutcome(Rule, db) IN
         IF lookup \notin {"none", "ok"} \cup lookup_catches
            THEN MessageRaises(lookup, lookup)
            ELSE /\ hmsg' = [ai |-> 1, processed_attachments |-> 0,
                             correspondent |-> get_correspondent(Message, Rule, db),
                             lookup |-> lookup]
                 /\ pc' = "att"
                 /\ cur' = cur
    /\ UNCHANGED <<account, server, sess, auth, attempted, total,
                   dispatched, cmds, ruleLog, result>>

\* one pass of the loop over message.attachments; after the last attachment
\* handle_message returns processed_attachments
HandleAttachment ==
    /\ pc = "att"
    /\ LET att == Message.attachments[hmsg.ai]
           accepted == Qualifies(att, Rule)
           processed == hmsg.processed_attachments + (IF accepted THEN 1 ELSE 0)
       IN /\ dispatched' = IF accepted
                              THEN Append(dispatched,
                                          <<cur.rule, Uid, hmsg.ai,
                                            hmsg.correspondent, hmsg.lookup>>)
                              ELSE dispatched
          /\ IF hmsg.ai = Len(Message.attachments)
                THEN MessageReturns(processed)
                ELSE /\ hmsg' = [hmsg EXCEPT !.ai = @ + 1,
                                              !.processed_attachments = processed]
                     /\ UNCHANGED <<cur, pc>>
    /\ UNCHANGED <<account, server, sess, auth, attempted, total,
                   cmds, ruleLog, result>>

\* handle_message raises: before its loop (resolving the correspondent, the
\* tags) or while handling an attachment that passed the disposition test
\* (the glob, the title, the sniffing, the scratch file, async_task). The
\* attachments dispatched before stay dispatched; the count is lost.
MessageError ==
    /\ pc = "att"
    /\ \/ hmsg.ai = 1
       \/ ~(/\ ~(Message.attachments[hmsg.ai].content_disposition = "attachment")
            /\ Rule.attachment_type = "ATTACHMENTS_ONLY")
    /\ MessageRaises("Exception", hmsg.lookup)
    /\ UNCHANGED <<account, server, sess, auth, attempted, total,
                   dispatched, cmds, ruleLog, result>>

\* iterating the result of M.fetch raises (the search or the download of the
\* next message fails): outside every try of handle_mail_rule
IterateError ==
    /\ pc = "loop"
    /\ RuleRaises("Exception", "iterate", <<>>)
    /\ UNCHANGED <<account, server, sess, auth, attempted,
                   dispatched, cmds, result>>

\* EndOfMessages without its test: the loop may be left at any message
EndOfMessagesEarly ==
    /\ pc = "loop"
    /\ cur.mi <= Len(cur.messages)
    /\ pc' = "post"
    /\ UNCHANGED <<account, server, sess, auth, attempted, total, cur, hmsg,
                   dispatched, cmds, ruleLog, result>>

\* the message loop is exhausted
EndOfMessages ==
    /\ pc = "loop"
    /\ cur.mi = Len(cur.messages)
    /\ pc' = "post"
    /\ UNCHANGED <<account, server, sess, auth, attempted, total, cur, hmsg,
                   dispatched, cmds, ruleLog, result>>

\* get_rule_action(rule).post_consume(M, post_consume_messages, parameter)
\* succeeds, and handle_mail_rule returns total_processed_files
PostConsume ==
    /\ pc = "post"
    /\ LET batch == cur.post_consume_messages IN
         /\ server' = ApplyAction(server, Rule, account.host, batch, Len(batch))
         /\ cmds' = cmds \o PostCommands(cur.rule, Rule, account.host, batch,
                                         Len(batch), sess)
         /\ RuleReturns(cur.total_processed_files, batch)
    /\ UNCHANGED <<account, sess, auth, attempted, dispatched, result>>

\* post_consume raises: MailError. The label stores of a Gmail host are sent
\* uid by uid, so those before the failing one have taken effect
PostConsumeError ==
    /\ pc = "post"
    /\ LET batch == cur.post_consume_messages IN
         /\ IF Rule.action = "TAG" /\ IsGmailHost(account.host)
               THEN \E n \in 0..(Len(batch) - 1) :
                      /\ server' = ApplyAction(server, Rule, account.host, batch, n)
                      /\ cmds' = cmds \o PostCommands(cur.rule, Rule, account.host,
                                                      batch, n + 1, sess)
               ELSE /\ server' = server
                    /\ cmds' = cmds \o PostCommands(cur.rule, Rule, account.host,
                                                    batch, Len(batch), sess)
         /\ RuleRaises("MailError", "post", batch)
    /\ UNCHANGED <<account, sess, auth, attempted, dispatched, result>>

\* handle_mail_account is called again for the same account, on the mailbox
\* as the pass before left it; the logs of commands and dispatches start anew
NextPass ==
    /\ pc = "done"
    /\ sess.opened < MaxPasses
    /\ pc' = "start"
    /\ sess' = [sess EXCEPT !.state = "NONE"]
    /\ auth' = [login |-> "none", plain |-> "none", pending |-> "none"]
    /\ attempted' = <<>>
    /\ total' = 0
    /\ dispatched' = <<>>
    /\ cmds' = <<>>
    /\ result' = [status |-> "running", value |-> 0]
    /\ UNCHANGED <<account, server, cur, hmsg, ruleLog>>

----------------------------------------------------------------------------

Next ==
    \/ OpenMailbox \/ OpenMailboxFails
    \/ LoginOk \/ LoginUnicodeEncodeError \/ LoginError
    \/ PlainOk \/ PlainFails
    \/ StartRule
    \/ SelectFolder \/ SelectFolderError \/ SelectFolderOtherError
    \/ Fetch \/ FetchError
    \/ MessageWithoutAttachments \/ StartMessage \/ HandleAttachment
    \/ MessageError \/ IterateError \/ EndOfMessages
    \/ PostConsume \/ PostConsumeError
    \/ ExitSession

Spec == Init /\ [][Next]_vars

\* the pass of an account whose one rule carries filters
SpecCriteria == InitCriteria /\ [][Next]_vars

\* the pass of an account whose one rule has any action
SpecActions == InitPasses /\ [][Next]_vars

\* up to MaxPasses passes of an account of one rule over the same mailbox
SpecPasses == InitPasses /\ [][Next \/ NextPass]_vars

\* the pass of an account whose one rule configures the attachment pipeline
SpecPipeline == InitPipeline /\ [][Next]_vars

----------------------------------------------------------------------------
(* Properties *)

Entries == Range(ruleLog)

\* the uids of the messages handle_message was called for, in call order
Evaluated(returns) == [i \in 1..Len(returns) |-> returns[i][1]]

\* the uids for which handle_message returned a count >= 1, in call order
RECURSIVE PositiveUids(_)
PositiveUids(returns) ==
    IF returns = <<>> THEN <<>>
    ELSE (IF Head(returns)[2] >= 1 THEN <<Head(returns)[1]>> ELSE <<>>)
         \o PositiveUids(Tail(returns))

\* the message raised in handle_message during the pass
Raised(returns, u) ==
    \E i \in 1..Len(returns) : returns[i][1] = u /\ returns[i][2] = -1

\* some attachment of the message passes the rule's three tests
HasQualifying(m, rule) ==
    \E i \in 1..Len(m.attachments) : Qualifies(m.attachments[i], rule)

BatchIsExact(rule, batch, returns, srv) ==
    /\ batch = PositiveUids(returns)
    /\ \A u \in Range(batch) :
        /\ srv[u].attachments # <<>>
        /\ HasQualifying(srv[u], rule)
        /\ ~Raised(returns, u)

\* C1: whenever a rule pass is at, or has been through, the post-consume step,
\* the uid batch handed to post_consume is exactly the uids for which
\* handle_message returned a count >= 1, in that order; no message without
\* attachments, with only skipped attachments, or whose processing raised, is
\* in it.
C1_BatchIsReturnedPositive ==
    /\ pc = "post" =>
          BatchIsExact(Rule, cur.post_consume_messages, cur.returns, server)
    /\ \A e \in Entries :
          e.stage \in {"post", "done"} =>
              BatchIsExact(account.rules[e.rule], e.batch, e.returns, server)

\* C1 witness: at the post-consume step with one uid in the batch, after
\* another message raised and so was left out
C1_Witness ==
    /\ pc = "post"
    /\ Len(cur.post_consume_messages) = 1
    /\ \E u \in UIDs : Raised(cur.returns, u)

AuthSucceeded == auth.login = "ok" \/ auth.plain = "ok"
AuthFailed == auth.login = "error" \/ auth.plain = "failed"

\* C2: the rules are attempted in ascending order of their order field and
\* none twice; and once authentication has succeeded, the account pass ends
\* with every rule attempted and returns normally, whatever the rules did.
C2_EveryRuleOnceInOrder ==
    /\ \A i, j \in 1..Len(attempted) :
          i < j => /\ attempted[i] # attempted[j]
                   /\ account.rules[attempted[i]].order
                         <= account.rules[attempted[j]].order
    /\ Len(ruleLog) <= Len(attempted)
    /\ (pc = "done" /\ AuthSucceeded) =>
          /\ Range(attempted) = DOMAIN account.rules
          /\ Len(ruleLog) = Len(attempted)
          /\ \A i \in 1..Len(ruleLog) : ruleLog[i].rule = attempted[i]
          /\ result.status = "returned"

\* C2 witness: a finished pass of two rules, the rule of greater id and
\* smaller order first; it failed, and the other rule was run after it
C2_Witness ==
    /\ pc = "done"
    /\ attempted = <<2, 1>>
    /\ account.rules[2].order < account.rules[1].order
    /\ ruleLog[1].outcome # "returned"
    /\ ruleLog[2].outcome = "returned"

\* C3 (as claimed): when handle_mail_account returns normally, the value it
\* returns is the number of async_task calls made during the pass.
C3_ReturnIsDispatchedTotal ==
    (pc = "done" /\ result.status = "returned") =>
        result.value = Len(dispatched)

\* C4 (as claimed): when handle_mail_rule returns normally, the value it
\* returns is the number of async_task calls made for that rule's messages.
C4_RuleReturnIsDispatched ==
    \A e \in Entries : e.outcome = "returned" => e.value = e.ndispatched

\* C5: an error raised by handle_message does not end the rule: a rule pass
\* in which a message raised ends only by the fetch iterator failing or in
\* the post-consume step; at the post-consume step every fetched message has
\* been evaluated, in fetch order; and the rule returns normally exactly when
\* post-consume succeeded.
C5_MessageErrorIsolated ==
    /\ pc = "post" => Evaluated(cur.returns) = cur.messages
    /\ \A e \in Entries :
        /\ e.stage \in {"post", "done"} => Evaluated(e.returns) = e.messages
        /\ (\E u \in UIDs : Raised(e.returns, u)) =>
              e.stage \in {"iterate", "post", "done"}
        /\ e.stage = "done" <=> e.outcome = "returned"
        /\ e.stage = "post" => e.outcome = "MailError"

\* C5 witness: a rule that returned normally although its first message
\* raised; the message after it was evaluated and is in the batch
C5_Witness ==
    \E e \in Entries :
        /\ e.outcome = "returned"
        /\ Len(e.returns) = 2
        /\ e.returns[1][2] = -1
        /\ e.batch = <<e.returns[2][1]>>

\* the server's messages are as they were before the pass
ServerUntouched ==
    \A u \in UIDs :
        server[u] = [NewMessage(server[u].attachments) EXCEPT !.exists = server[u].exists]

\* C6: when authentication fails (login raises something other than
\* UnicodeEncodeError, or the PLAIN fallback fails), no rule is attempted: no
\* command is issued for a rule, nothing is dispatched, the server is not
\* changed; and the call ends by raising MailError.
C6_AuthFailureAbortsAccount ==
    AuthFailed =>
        /\ attempted = <<>>
        /\ ruleLog = <<>>
        /\ cmds = <<>>
        /\ dispatched = <<>>
        /\ ServerUntouched
        /\ pc \in {"exit", "done"}
        /\ pc = "done" => result.status = "MailError"

\* C6 witness: the call ended with MailError after login itself failed, on an
\* account that has rules
C6_Witness ==
    /\ pc = "done"
    /\ auth.login = "error"
    /\ result.status = "MailError"
    /\ DOMAIN account.rules # {}

\* C7: past the authentication steps, the PLAIN fallback was attempted if and
\* only if login raised UnicodeEncodeError; and when the fallback succeeded,
\* the rule loop starts, and the first command of the first rule is issued, on
\* a session in the selected state with INBOX selected, as after a plain login.
C7_PlainFallback ==
    /\ pc \notin {"start", "login", "plain"} =>
          (auth.plain # "none" <=> auth.login = "UnicodeEncodeError")
    /\ auth.plain # "none" => auth.login = "UnicodeEncodeError"
    /\ (AuthSucceeded /\ pc = "rules" /\ attempted = <<>>) =>
          (sess.state = "SELECTED" /\ sess.folder = "INBOX")
    /\ (AuthSucceeded /\ cmds # <<>>) =>
          (cmds[1].state = "SELECTED" /\ cmds[1].folder = "INBOX")

\* C7 witness: a pass authenticated by the fallback that went on to run a rule
\* which fetched and dispatched
C7_Witness ==
    /\ auth.plain = "ok"
    /\ pc = "done"
    /\ dispatched # <<>>

\* C8: at most one session is opened per pass, none is released that was not
\* opened, and when the call has ended, by returning or by raising, every
\* opened session has been released.
C8_SessionReleased ==
    /\ sess.opened <= 1
    /\ sess.released <= sess.opened
    /\ pc = "done" => sess.released = sess.opened
    /\ pc \notin {"start", "done"} => (sess.opened = 1 /\ sess.released = 0)

\* C8 witness: the call ended by raising MailError after the fallback failed,
\* with its one session released
C8_Witness ==
    /\ pc = "done"
    /\ result.status = "MailError"
    /\ auth.plain = "failed"
    /\ sess.opened = 1
    /\ sess.released = 1

\* C9: when opening the mailbox fails, the call returns normally with a count
\* of 0 and no rule is attempted; an authentication failure ends the call with
\* MailError.
C9_OpenFailureSwallowed ==
    /\ (pc = "done" /\ sess.opened = 0) =>
          /\ result = [status |-> "returned", value |-> 0]
          /\ attempted = <<>>
          /\ cmds = <<>>
          /\ dispatched = <<>>
    /\ (pc = "done" /\ AuthFailed) => result.status = "MailError"
    /\ (pc = "done" /\ result.status = "MailError") => AuthFailed

\* C9 witness: the call has ended without any session opened, on an account
\* with rules
C9_Witness ==
    /\ pc = "done"
    /\ sess.opened = 0
    /\ DOMAIN account.rules # {}

\* C10: no step of a pass changes the server-side state (flags, keywords,
\* labels, folder, existence) of a message, except the post-consume step, and
\* that one only for the uids of its batch: fetching marks nothing seen, and
\* every message outside the batch, fetched or not, is after the pass as it
\* was before.
C10_OnlyBatchChanged ==
    [][\A u \in UIDs :
          server'[u] # server[u] =>
              (pc = "post" /\ u \in Range(cur.post_consume_messages))]_vars

\* C10 witness: a MARK_READ rule has just returned; it fetched two messages,
\* marked the one in its batch seen, and left the other, which had no
\* qualifying attachment, unseen
C10_Witness ==
    /\ pc = "rules"
    /\ ruleLog # <<>>
    /\ LET e == ruleLog[Len(ruleLog)] IN
        /\ account.rules[e.rule].action = "MARK_READ"
        /\ e.outcome = "returned"
        /\ Len(e.messages) = 2
        /\ Len(e.batch) = 1
        /\ \A u \in Range(e.messages) : server[u].seen <=> u \in Range(e.batch)

----------------------------------------------------------------------------
(* Properties of the criteria, under SpecCriteria *)

\* handle_mail_rule has fetched and not yet returned
AfterFetch == pc \in {"loop", "att", "post"}

\* C11: the criteria a Tag(k) rule passes to fetch are
\* AND(NOT(gmail_label = k), no_keyword = k, the rule's other filters): the
\* gmail_label clause is in the negated part only, never a flat key, and no
\* fetched message bears keyword k or label k; the criteria of a rule with any
\* other action have no gmail_label clause, negated or flat.
C11_TagCriteria ==
    AfterFetch =>
        LET k == Rule.action_parameter
            c == cur.criterias
        IN  IF Rule.action = "TAG"
                THEN /\ c.not_ = {<<"gmail_label", k>>}
                     /\ <<"no_keyword", k>> \in c.and_
                     /\ Keys(c.and_) \subseteq
                            {"no_keyword", "date_gte", "from_", "subject", "body"}
                     /\ \A u \in Range(cur.messages) :
                            k \notin server[u].keywords /\ k \notin server[u].labels
                ELSE /\ c.not_ = {}
                     /\ "gmail_label" \notin Keys(c.and_)
                     /\ "no_keyword" \notin Keys(c.and_)

\* C11 witness: a Tag rule with a subject filter has fetched; the one message,
\* which matches the filter and bears the label already, was not returned
C11_Witness ==
    /\ pc = "loop"
    /\ Rule.action = "TAG"
    /\ Rule.filter_subject = <<"s">>
    /\ server[1].exists
    /\ server[1].subject = <<"s">>
    /\ server[1].labels = {Rule.action_parameter}
    /\ cur.messages = <<>>

\* C12: the criteria passed to fetch have a date lower bound exactly when
\* maximum_age > 0, and then it is today minus maximum_age; they have a
\* sender, subject or body clause exactly when that filter of the rule is not
\* empty, and then with the filter's value; a rule with maximum_age 0, no
\* filters and a Move or Delete action has empty criteria.
C12_CriteriaFollowFilters ==
    AfterFetch =>
        LET c == cur.criterias
            Has(key, on, value) ==
                /\ key \in Keys(c.and_) <=> on
                /\ on => \A x \in c.and_ : x[1] = key => x[2] = value
        IN  /\ Has("date_gte", Rule.maximum_age > 0, Today - Rule.maximum_age)
            /\ Has("from_", Rule.filter_from # <<>>, Rule.filter_from)
            /\ Has("subject", Rule.filter_subject # <<>>, Rule.filter_subject)
            /\ Has("body", Rule.filter_body # <<>>, Rule.filter_body)
            /\ Keys(c.not_) \cap {"date_gte", "from_", "subject", "body"} = {}
            /\ (/\ Rule.maximum_age = 0
                 /\ Rule.filter_from = <<>>
                 /\ Rule.filter_subject = <<>>
                 /\ Rule.filter_body = <<>>
                 /\ Rule.action \in {"MOVE", "DELETE"}) => c = NoCriteria
            /\ \A u \in Range(cur.messages) :
                  Rule.maximum_age > 0 =>
                      server[u].date >= Today - Rule.maximum_age

\* C12 witness: a Delete rule with only an age bound has fetched the message
\* dated exactly maximum_age days ago
C12_Witness ==
    /\ pc = "loop"
    /\ Rule.action = "DELETE"
    /\ Rule.maximum_age > 0
    /\ Rule.filter_from = <<>>
    /\ Rule.filter_subject = <<>>
    /\ Rule.filter_body = <<>>
    /\ server[1].date = Today - Rule.maximum_age
    /\ cur.messages = <<1>>

----------------------------------------------------------------------------
(* Properties of the post-consume step, under SpecActions *)

\* the commands the post-consume step of rule rid issued, in order
PostConsumeCommands(rid) ==
    SelectSeq(cmds, LAMBDA c : c.rule = rid /\ c.cmd \notin {"SELECT", "LIST", "FETCH"})

\* C13: for a Tag(k) rule whose post-consume step was reached, on a host
\* whose name ends in gmail.com or googlemail.com every command of the step is
\* a raw UID STORE X-GM-LABELS k for one uid of the batch, in batch order, one
\* for each uid when the step succeeded, and none is a flag command; on any
\* other host the step issues exactly one flag command, setting keyword k on
\* the whole batch, and no label store.
C13_TagPostConsume ==
    \A e \in Entries :
        LET rule == account.rules[e.rule]
            k == rule.action_parameter
            post == PostConsumeCommands(e.rule)
        IN  (rule.action = "TAG" /\ e.stage \in {"post", "done"}) =>
                IF EndsWith(account.host, GmailCom)
                       \/ EndsWith(account.host, GooglemailCom)
                    THEN /\ Len(post) <= Len(e.batch)
                         /\ e.stage = "done" => Len(post) = Len(e.batch)
                         /\ \A i \in 1..Len(post) :
                               /\ post[i].cmd = "UID STORE X-GM-LABELS"
                               /\ post[i].uids = <<e.batch[i]>>
                               /\ post[i].arg = k
                    ELSE /\ Len(post) = 1
                         /\ post[1].cmd = "FLAG"
                         /\ post[1].uids = e.batch
                         /\ post[1].arg = k

\* C13 witness: a Tag rule on imap.gmail.com returned after a post-consume
\* step with two uids in its batch
C13_Witness ==
    \E e \in Entries :
        /\ account.rules[e.rule].action = "TAG"
        /\ account.host = ImapGmailCom
        /\ e.outcome = "returned"
        /\ Len(e.batch) = 2
        /\ Len(PostConsumeCommands(e.rule)) = 2

----------------------------------------------------------------------------
(* Properties of the attachment pipeline, under SpecPipeline *)

\* the three conditions on one attachment, read off its disposition, its file
\* name and its payload
ShouldDispatch(att, rule) ==
    /\ \/ rule.attachment_type # "ATTACHMENTS_ONLY"
       \/ att.content_disposition = "attachment"
    /\ \/ rule.filter_attachment_filename = <<>>
       \/ fnmatch(Lower(att.filename), Lower(rule.filter_attachment_filename))
    /\ is_mime_type_supported(Magic(att.payload))

\* the indices among the first n attachments of message u that should be
\* dispatched, and those that were dispatched for rule rid
DueOf(rid, u, n) ==
    {i \in 1..n : ShouldDispatch(server[u].attachments[i], account.rules[rid])}
DispatchedOf(rid, u) ==
    {dispatched[i][3] : i \in {j \in 1..Len(dispatched) :
                                  dispatched[j][1] = rid /\ dispatched[j][2] = u}}

\* handle_message returned `r[2]` for message r[1] of rule rid
ReturnIsExact(rid, r, batch) ==
    r[2] >= 0 =>
        LET u == r[1]
            due == DueOf(rid, u, Len(server[u].attachments))
        IN  /\ DispatchedOf(rid, u) = due
            /\ r[2] = Cardinality(due)
            /\ r[3] = ""
            /\ due = {} => u \notin Range(batch)

\* C14: while handle_message runs, the attachments it has dispatched are
\* those, among the ones it has been through, that meet the three conditions
\* (scope, glob on lower-cased names, sniffed mime type supported), and its
\* count is their number; when it returns, it returns that count, no error is
\* raised by the rejected ones, and a message of which none was dispatched is
\* not in the batch.  The declared content type is not among the conditions.
C14_DispatchedIffThreeConditions ==
    /\ pc = "att" =>
          /\ DispatchedOf(cur.rule, Uid) = DueOf(cur.rule, Uid, hmsg.ai - 1)
          /\ hmsg.processed_attachments = Cardinality(DispatchedOf(cur.rule, Uid))
    /\ \A i \in 1..Len(cur.returns) :
          ReturnIsExact(cur.rule, cur.returns[i], cur.post_consume_messages)
    /\ \A e \in Entries : \A i \in 1..Len(e.returns) :
          ReturnIsExact(e.rule, e.returns[i], e.batch)

\* C14 witness: under an attachments-only rule with the glob *.PDF, a message
\* of three parts declared octet-stream or pdf (a.pdf that is no PDF, a.pdf
\* that is one, an inline a.pdf) returned 1: the second part was dispatched
C14_Witness ==
    /\ pc = "post"
    /\ Rule.attachment_type = "ATTACHMENTS_ONLY"
    /\ Rule.filter_attachment_filename = StarDotPDF
    /\ server[1].attachments = <<OtherPayloadAtt, GoodAtt, InlineAtt>>
    /\ cur.returns = << <<1, 1, "", "none">> >>
    /\ DispatchedOf(cur.rule, 1) = {2}
    /\ cur.post_consume_messages = <<1>>

\* handle_message was called for message r[1] of rule rid, and the lookup of
\* the correspondent failed
LookupFailureIsSoft(rid, r, batch) ==
    /\ r[3] # "DatabaseError"
    /\ (r[4] = "DatabaseError" /\ r[2] >= 0) =>
          LET due == DueOf(rid, r[1], Len(server[r[1]].attachments))
          IN  /\ DispatchedOf(rid, r[1]) = due
              /\ r[2] = Cardinality(due)
              /\ due # {} => r[1] \in Range(batch)

\* C18: a DatabaseError of the correspondent lookup (sources FROM_EMAIL and
\* FROM_NAME) never leaves handle_message: the call goes on into its loop with
\* no correspondent, every attachment it dispatches carries no correspondent
\* id, and when it returns, every attachment that meets the conditions has
\* been dispatched and the uid is in the batch.
C18_LookupFailureIsSoft ==
    /\ hmsg.lookup = "DatabaseError" =>
          (pc = "att" /\ hmsg.correspondent = None)
    /\ \A i \in 1..Len(dispatched) :
          /\ dispatched[i][5] = "DatabaseError" => dispatched[i][4] = None
          /\ dispatched[i][5] = "ok" => dispatched[i][4] # None
    /\ \A i \in 1..Len(cur.returns) :
          LookupFailureIsSoft(cur.rule, cur.returns[i], cur.post_consume_messages)
    /\ \A e \in Entries : \A i \in 1..Len(e.returns) :
          e.stage \in {"post", "done"} =>
              LookupFailureIsSoft(e.rule, e.returns[i], e.batch)

\* C18 witness: a rule with source FROM_NAME returned; the lookup failed for
\* its one message, whose two attachments were dispatched with no
\* correspondent id, and the message is in the batch
C18_Witness ==
    \E e \in Entries :
        /\ account.rules[e.rule].assign_correspondent_from = "FROM_NAME"
        /\ e.outcome = "returned"
        /\ e.returns = << <<1, 2, "", "DatabaseError">> >>
        /\ e.batch = <<1>>
        /\ Len(dispatched) = 2
        /\ \A i \in 1..2 : dispatched[i][4] = None

----------------------------------------------------------------------------
(* Properties of the order of the steps of a rule pass, under SpecActions *)

\* C15: the commands that change the server (flag, move, delete, label store)
\* of a rule are issued in its post-consume step and nowhere else: none has
\* been issued for the rule that is still running; when some were issued, every
\* message the rule fetched had been evaluated by handle_message; the step is
\* taken at most once (one command, or one label store for each uid of the
\* batch at most); and a rule that ended at the folder selection, the fetch
\* or the iteration issued none.
C15_MutationsAfterEvaluation ==
    /\ cur.rule # 0 => PostConsumeCommands(cur.rule) = <<>>
    /\ \A i \in 1..Len(cmds) :
          cmds[i].cmd \notin {"SELECT", "LIST", "FETCH"} =>
              \E e \in Entries :
                  /\ e.rule = cmds[i].rule
                  /\ e.stage \in {"post", "done"}
                  /\ Evaluated(e.returns) = e.messages
                  /\ \E j, k \in 1..(i - 1) :
                        /\ j < k
                        /\ cmds[j].rule = e.rule /\ cmds[j].cmd = "SELECT"
                        /\ cmds[k].rule = e.rule /\ cmds[k].cmd = "FETCH"
    /\ \A e \in Entries :
          LET post == PostConsumeCommands(e.rule) IN
          /\ e.stage \in {"select", "fetch", "iterate"} => post = <<>>
          /\ Len(post) <= (IF Len(e.batch) > 1 THEN Len(e.batch) ELSE 1)
          /\ \A i, j \in 1..Len(post) : i # j => post[i].uids # post[j].uids

\* C15 witness: a Move rule returned; it fetched two messages, the first of
\* which raised, and issued its one MOVE after both had been evaluated
C15_Witness ==
    \E e \in Entries :
        /\ account.rules[e.rule].action = "MOVE"
        /\ e.outcome = "returned"
        /\ Len(e.messages) = 2
        /\ Len(e.returns) = 2
        /\ e.returns[1][2] = -1
        /\ Len(PostConsumeCommands(e.rule)) = 1
        /\ PostConsumeCommands(e.rule)[1].uids = <<e.messages[2]>>

----------------------------------------------------------------------------
(* Properties of the errors of a rule and of the session it runs on, under   *)
(* Spec                                                                      *)

\* C16 (as claimed): every error that leaves handle_mail_rule is a MailError.
C16_RuleErrorsAreMailErrors ==
    \A e \in Entries : e.outcome \in {"returned", "MailError"}

\* the uids of the messages from which rule rid had an attachment dispatched
DispatchedUids(rid) ==
    {dispatched[i][2] : i \in {j \in 1..Len(dispatched) : dispatched[j][1] = rid}}

\* C19 (as claimed): in a rule pass that reaches the post-consume step, every
\* message from which an attachment was dispatched is in the batch.
C19_DispatchedAreInBatch ==
    /\ pc = "post" =>
          DispatchedUids(cur.rule) \subseteq Range(cur.post_consume_messages)
    /\ \A e \in Entries :
          e.stage \in {"post", "done"} =>
              DispatchedUids(e.rule) \subseteq Range(e.batch)

\* C20: every fetch and every post-consume command of a rule was issued on an
\* authenticated session in the selected state whose selected folder was the
\* rule's folder, and a rule that is past its folder selection runs on such a
\* session; whichever way the session was authenticated and however the
\* rules before it ended.
C20_CommandsOnTheRulesFolder ==
    /\ \A i \in 1..Len(cmds) :
          cmds[i].cmd \notin {"SELECT", "LIST"} =>
              /\ AuthSucceeded
              /\ cmds[i].state = "SELECTED"
              /\ cmds[i].folder = account.rules[cmds[i].rule].folder
    /\ pc \in {"fetch", "loop", "att", "post"} =>
          /\ AuthSucceeded
          /\ sess.state = "SELECTED"
          /\ sess.folder = Rule.folder

\* C20 witness: on a session authenticated by the PLAIN fallback, the first
\* rule failed at its folder selection and the second fetched and ran its
\* post-consume action on one uid
C20_Witness ==
    /\ auth.plain = "ok"
    /\ Len(ruleLog) = 2
    /\ ruleLog[1].stage = "select"
    /\ ruleLog[1].outcome = "MailError"
    /\ ruleLog[2].outcome = "returned"
    /\ Len(ruleLog[2].batch) = 1
    /\ \E i \in 1..Len(cmds) :
          cmds[i].rule = ruleLog[2].rule /\ cmds[i].cmd = "FETCH"

----------------------------------------------------------------------------
(* Properties of repeated passes, under SpecPasses *)

\* the uids of the batches of the passes of ruleLog[1..n] whose post-consume
\* step succeeded and whose rule satisfies Covered
HandledBefore(n, Covered(_)) ==
    UNION {Range(ruleLog[i].batch) :
             i \in {j \in 1..n : /\ ruleLog[j].outcome = "returned"
                                  /\ Covered(account.rules[ruleLog[j].rule])}}

\* no message handled by an earlier pass of a covered rule is fetched, or has
\* an attachment dispatched, by a later pass of that rule
NotFetchedAgain(Covered(_)) ==
    /\ \A j \in 1..Len(ruleLog) :
          /\ Range(ruleLog[j].messages) \cap HandledBefore(j - 1, Covered) = {}
          /\ \A i \in 1..Len(ruleLog[j].returns) :
                ruleLog[j].returns[i][1] \notin HandledBefore(j - 1, Covered)
    /\ cur.rule # 0 =>
          /\ Range(cur.messages) \cap HandledBefore(Len(ruleLog), Covered) = {}
          /\ DispatchedUids(cur.rule) \cap HandledBefore(Len(ruleLog), Covered) = {}

AnyRule(rule) == TRUE
NotMoveInPlace(rule) ==
    rule.action = "MOVE" => rule.action_parameter # rule.folder

\* C17 (as claimed): for every action, a message that was in the batch of a
\* pass whose post-consume step succeeded is not fetched by a later pass of
\* the rule, and no attachment of it is dispatched again.
C17_HandledNotFetchedAgain == NotFetchedAgain(AnyRule)

\* C17 (amended): for Flag, MarkRead, Delete, Tag on Gmail and other hosts,
\* and Move to a folder other than the rule's own, a message that was in the
\* batch of a pass whose post-consume step succeeded is not fetched by a later
\* pass of the rule, and no attachment of it is dispatched again.
C17_HandledNotFetchedAgainUnlessMovedInPlace == NotFetchedAgain(NotMoveInPlace)

\* C17 witness: the second pass of a Flag rule has fetched: the message the
\* first pass flagged is not among the fetched, the message without
\* attachments, which the first pass left alone, is fetched again
C17_Witness ==
    /\ pc = "loop"
    /\ Rule.action = "FLAG"
    /\ Len(ruleLog) = 1
    /\ ruleLog[1].outcome = "returned"
    /\ ruleLog[1].messages = <<1, 2>>
    /\ ruleLog[1].batch = <<1>>
    /\ cur.messages = <<2>>

====
